---- MODULE Spec2Model ----
(***************************************************************************)
(* Model of examples/builds/get_token.py: a linear script that reads three *)
(* environment variables, asks an interactive browser credential for a     *)
(* token, issues one HTTP GET with that token, creates the parent          *)
(* directories of the output path and writes the response text there.      *)
(*                                                                         *)
(* Python str values that the script only formats or compares are TLA+     *)
(* strings; file paths and response bodies, which the library code scans   *)
(* character by character, are sequences of one-character strings.         *)
(* A Python value is a tagged record: None, or Str(v).                     *)
(***************************************************************************)
EXTENDS Naturals, Sequences, FiniteSets, TLC

VARIABLES
    environ,           \* os.environ of the process
    dirs,              \* filesystem: the nodes that are directories
    files,             \* filesystem: node -> text of each regular file
    run,               \* number of the current invocation of the script
    pc,                \* position of the current invocation in the script
    error,             \* exception that ended the invocation, or "none"
    tenant_id,         \* module global, line 12
    client_id,         \* module global, line 13
    output_file_path,  \* module global, line 14
    scope,             \* module global, line 15
    token,             \* module global, line 23
    headers,           \* module global, line 26
    response,          \* module global, line 27
    handle,            \* the file object bound by the with statement, line 33
    tokenLog,          \* calls received by the token provider in this invocation
    httpLog,           \* HTTP requests issued in this invocation
    stdout,            \* notices printed by this invocation
    dirs0,             \* directories when the invocation started
    files0,            \* files when the invocation started
    prev               \* how the previous invocation ended

vars == <<environ, dirs, files, run, pc, error, tenant_id, client_id,
          output_file_path, scope, token, headers, response, handle,
          tokenLog, httpLog, stdout, dirs0, files0, prev>>

----------------------------------------------------------------------------
(* Bounds *)

MaxRuns == 2
MaxBody == 1

----------------------------------------------------------------------------
(* Python values *)

None == [t |-> "NoneType"]
Str(s) == [t |-> "str", v |-> s]
Unbound == [t |-> "unbound"]

\* str(x) as an f-string field formats it: None becomes the text None.
Format(x) == IF x = None THEN "None" ELSE x.v

\* The same for a value kept as a character sequence.
FormatChars(x) == IF x = None THEN <<"N", "o", "n", "e">> ELSE x.v

\* os.getenv(name): the value, or None when the variable is unset.
getenv(name) == IF name \in DOMAIN environ THEN environ[name] ELSE None

endpoint == "https://prod-feature.runners.gitlab.private.key.store/api/Token/GetWorkloadIdentityToken"

\* Variant that builds the scope from the tenant identifier.
ScopeOfTenant(cid) == "api://" \o Format(getenv("AZURE_TENANT_ID")) \o "/access_as_user"
\* f"api://{client_id}/access_as_user"
ScopeOf(cid) == "api://" \o Format(cid) \o "/access_as_user"

\* Line 26.
Headers(tok) == [Authorization |-> "Bearer " \o tok.token, Accept |-> "text/plain"]

----------------------------------------------------------------------------
(* posixpath: split and dirname work on the characters of the path *)

SEP == "/"

RECURSIVE RFind(_, _)
\* 1-based index of the last separator among the first i characters, or 0.
RFind(p, i) == IF i = 0 THEN 0
               ELSE IF p[i] = SEP THEN i
               ELSE RFind(p, i - 1)

AllSeps(p) == \A i \in 1..Len(p) : p[i] = SEP

RECURSIVE RStripSep(_)
RStripSep(p) == IF p # <<>> /\ p[Len(p)] = SEP
                THEN RStripSep(SubSeq(p, 1, Len(p) - 1))
                ELSE p

split(p) ==
    LET i == RFind(p, Len(p))
        h == SubSeq(p, 1, i)
    IN [head |-> IF h # <<>> /\ ~AllSeps(h) THEN RStripSep(h) ELSE h,
        tail |-> SubSeq(p, i + 1, Len(p))]

dirname(p) == split(p).head

----------------------------------------------------------------------------
(* The filesystem.  A node is the root it hangs from, "/" or the working   *)
(* directory ".", followed by the components of the path.                  *)

RECURSIVE Components(_, _, _)
Components(p, i, cur) ==
    IF i > Len(p) THEN (IF cur = <<>> THEN <<>> ELSE <<cur>>)
    ELSE IF p[i] = SEP
         THEN (IF cur = <<>> THEN <<>> ELSE <<cur>>) \o Components(p, i + 1, <<>>)
         ELSE Components(p, i + 1, Append(cur, p[i]))

RootAbs == <<SEP>>
RootCwd == <<".">>

Resolve(p) ==
    <<IF p # <<>> /\ p[1] = SEP THEN RootAbs ELSE RootCwd>> \o Components(p, 1, <<>>)

Ancestors(n) == {SubSeq(n, 1, k) : k \in 1..(Len(n) - 1)}

exists(p, d, f) == p # <<>> /\ (Resolve(p) \in d \/ Resolve(p) \in DOMAIN f)
isdir(p, d) == p # <<>> /\ Resolve(p) \in d

Ok(d) == [dirs |-> d, err |-> "none"]
Fail(d, e) == [dirs |-> d, err |-> e]

\* os.mkdir(name): one directory, whose parent must be a directory.
mkdir(name, d, f) ==
    IF name = <<>> THEN Fail(d, "FileNotFoundError")
    ELSE LET n == Resolve(name) IN
         IF n \in d \/ n \in DOMAIN f THEN Fail(d, "FileExistsError")
         ELSE IF \E a \in Ancestors(n) : a \in DOMAIN f
              THEN Fail(d, "NotADirectoryError")
         ELSE IF \E a \in Ancestors(n) : a \notin d
              THEN Fail(d, "FileNotFoundError")
         ELSE Ok(d \cup {n})

\* Variant that creates only the last directory, as os.mkdir would.
makedirs_flat(name, d, f) ==
    LET m == mkdir(name, d, f)
    IN IF m.err = "none" THEN m
       ELSE IF isdir(name, d) THEN Ok(d)
       ELSE m

RECURSIVE makedirs(_, _, _)
\* os.makedirs(name, exist_ok=True): the missing ancestors first, then name.
makedirs(name, d, f) ==
    LET s1 == split(name)
        s == IF s1.tail = <<>> THEN split(s1.head) ELSE s1
        pre == IF s.head # <<>> /\ s.tail # <<>> /\ ~exists(s.head, d, f)
               THEN makedirs(s.head, d, f)
               ELSE Ok(d)
    IN IF pre.err \notin {"none", "FileExistsError"} THEN pre
       ELSE LET m == mkdir(name, pre.dirs, f)
            IN IF m.err = "none" THEN m
               ELSE IF isdir(name, pre.dirs) THEN Ok(pre.dirs)
               ELSE m

Put(f, n, text) == [x \in DOMAIN f \cup {n} |-> IF x = n THEN text ELSE f[x]]

\* Variant that opens for appending: an existing file keeps its text.
open_a(p, d, f) ==
    IF p = <<>> THEN [files |-> f, err |-> "FileNotFoundError"]
    ELSE LET n == Resolve(p) IN
         IF n \in d THEN [files |-> f, err |-> "IsADirectoryError"]
         ELSE IF \E a \in Ancestors(n) : a \in DOMAIN f
              THEN [files |-> f, err |-> "NotADirectoryError"]
         ELSE IF \E a \in Ancestors(n) : a \notin d
              THEN [files |-> f, err |-> "FileNotFoundError"]
         ELSE [files |-> Put(f, n, IF n \in DOMAIN f THEN f[n] ELSE <<>>),
               err |-> "none"]

\* open(p, "w"): creates the file, or truncates the one that is there.
open_w(p, d, f) ==
    IF p = <<>> THEN [files |-> f, err |-> "FileNotFoundError"]
    ELSE LET n == Resolve(p) IN
         IF n \in d THEN [files |-> f, err |-> "IsADirectoryError"]
         ELSE IF \E a \in Ancestors(n) : a \in DOMAIN f
              THEN [files |-> f, err |-> "NotADirectoryError"]
         ELSE IF \E a \in Ancestors(n) : a \notin d
              THEN [files |-> f, err |-> "FileNotFoundError"]
         ELSE [files |-> Put(f, n, <<>>), err |-> "none"]

\* Text mode, newline=None: each "\n" written becomes os.linesep (POSIX).
os_linesep == <<"\n">>

RECURSIVE TranslateNewlines(_)
TranslateNewlines(text) ==
    IF text = <<>> THEN <<>>
    ELSE (IF Head(text) = "\n" THEN os_linesep ELSE <<Head(text)>>)
         \o TranslateNewlines(Tail(text))

\* Variant that writes only a 200 response.
write_gated(f, n, resp) ==
    IF resp.status = 200 THEN Put(f, n, f[n] \o TranslateNewlines(resp.text)) ELSE f
\* output_file.write(response.text) on the file object of node n.
write(f, n, resp) == Put(f, n, f[n] \o TranslateNewlines(resp.text))

----------------------------------------------------------------------------
(* Inputs *)

TenantVals == {None, Str("tenant")}
ClientVals == {None, Str("client")}

P_empty == <<>>
P_bare == <<"t">>
P_rel == <<"a", "/", "t">>
P_abs == <<"/", "a", "/", "b", "/", "c", "/", "t">>
PathVals == {None, Str(P_empty), Str(P_bare), Str(P_rel), Str(P_abs)}

Env(t, c, p) ==
    [n \in {x \in {"AZURE_TENANT_ID", "AZURE_CLIENT_ID", "AZURE_FEDERATED_TOKEN_FILE"} :
              (CASE x = "AZURE_TENANT_ID" -> t
                 [] x = "AZURE_CLIENT_ID" -> c
                 [] OTHER -> p) # None}
       |-> CASE n = "AZURE_TENANT_ID" -> t
             [] n = "AZURE_CLIENT_ID" -> c
             [] OTHER -> p]

Tokens == {"T1", "T2"}
Statuses == {200, 404}
Alphabet == {"h", "\n"}
Bodies == UNION {[1..k -> Alphabet] : k \in 0..MaxBody}
OldText == <<"o", "l", "d">>

Roots == {<<RootAbs>>, <<RootCwd>>}
NoFiles == [x \in {} |-> <<>>]

\* The filesystems an invocation may find along the output path: a leading
\* run of its ancestors exists, and the next node is absent, a regular file,
\* or (past the last ancestor) the output path itself is a directory.
InitFs(p) ==
    IF p = None \/ p.v = <<>> THEN {[dirs |-> Roots, files |-> NoFiles]}
    ELSE LET n == Resolve(p.v)
             Pre(k) == Roots \cup {SubSeq(n, 1, j) : j \in 1..k}
         IN {[dirs |-> Pre(k), files |-> NoFiles] : k \in 1..Len(n)}
            \cup {[dirs |-> Pre(k), files |-> Put(NoFiles, SubSeq(n, 1, k + 1), OldText)] :
                    k \in 1..(Len(n) - 1)}

----------------------------------------------------------------------------
(* The script *)

Init ==
    /\ \E t \in TenantVals, c \in ClientVals, p \in PathVals :
         /\ environ = Env(t, c, p)
         /\ \E fs \in InitFs(p) :
              /\ dirs = fs.dirs /\ files = fs.files
              /\ dirs0 = fs.dirs /\ files0 = fs.files
    /\ run = 1
    /\ pc = "getenv"
    /\ error = "none"
    /\ tenant_id = Unbound /\ client_id = Unbound /\ output_file_path = Unbound
    /\ scope = Unbound /\ token = Unbound /\ headers = Unbound
    /\ response = Unbound /\ handle = Unbound
    /\ tokenLog = <<>> /\ httpLog = <<>> /\ stdout = <<>>
    /\ prev = "none"

Globals == <<tenant_id, client_id, output_file_path, scope, token, headers, response, handle>>
World == <<environ, dirs, files, dirs0, files0, run, prev>>

\* Variant that checks the output path before anything else.
ReadConfigChecked ==
    /\ pc = "getenv"
    /\ tenant_id' = getenv("AZURE_TENANT_ID")
    /\ client_id' = getenv("AZURE_CLIENT_ID")
    /\ output_file_path' = getenv("AZURE_FEDERATED_TOKEN_FILE")
    /\ scope' = ScopeOf(getenv("AZURE_CLIENT_ID"))
    /\ pc' = IF getenv("AZURE_FEDERATED_TOKEN_FILE") = None THEN "aborted" ELSE "credential"
    /\ error' = IF getenv("AZURE_FEDERATED_TOKEN_FILE") = None THEN "ConfigurationError" ELSE error
    /\ UNCHANGED <<World, token, headers, response, handle, tokenLog, httpLog, stdout>>

\* Lines 12-16.
ReadConfig ==
    /\ pc = "getenv"
    /\ tenant_id' = getenv("AZURE_TENANT_ID")
    /\ client_id' = getenv("AZURE_CLIENT_ID")
    /\ output_file_path' = getenv("AZURE_FEDERATED_TOKEN_FILE")
    /\ scope' = ScopeOf(getenv("AZURE_CLIENT_ID"))
    /\ pc' = "credential"
    /\ UNCHANGED <<World, error, token, headers, response, handle, tokenLog, httpLog, stdout>>

\* Line 20: the constructor only builds the object; the login happens in get_token.
CreateCredential ==
    /\ pc = "credential"
    /\ pc' = "get_token"
    /\ UNCHANGED <<World, Globals, error, tokenLog, httpLog, stdout>>

\* Line 23, the browser login and token exchange succeed with token T.
GetTokenOk ==
    /\ pc = "get_token"
    /\ \E T \in Tokens :
         /\ tokenLog' = Append(tokenLog, [scope |-> scope, result |-> T])
         /\ token' = [token |-> T]
    /\ pc' = "request"
    /\ UNCHANGED <<World, error, tenant_id, client_id, output_file_path, scope,
                   headers, response, handle, httpLog, stdout>>

\* Variant in which the failure is swallowed and the script goes on without a token.
GetTokenFailSwallowed ==
    /\ pc = "get_token"
    /\ tokenLog' = Append(tokenLog, [scope |-> scope, result |-> "AuthenticationError"])
    /\ token' = [token |-> ""]
    /\ error' = "AuthenticationError"
    /\ pc' = "request"
    /\ UNCHANGED <<World, tenant_id, client_id, output_file_path, scope,
                   headers, response, handle, httpLog, stdout>>

\* Line 23, get_token raises: nothing catches it, the process ends.
GetTokenFail ==
    /\ pc = "get_token"
    /\ tokenLog' = Append(tokenLog, [scope |-> scope, result |-> "AuthenticationError"])
    /\ error' = "AuthenticationError"
    /\ pc' = "aborted"
    /\ UNCHANGED <<World, Globals, httpLog, stdout>>

Request(h) == [method |-> "GET", url |-> endpoint, headers |-> h]

\* Lines 26-27, a response arrives, whatever its status.
HttpGetOk ==
    /\ pc = "request"
    /\ headers' = Headers(token)
    /\ httpLog' = Append(httpLog, Request(Headers(token)))
    /\ \E st \in Statuses, body \in Bodies : response' = [status |-> st, text |-> body]
    /\ pc' = "print_response"
    /\ UNCHANGED <<World, error, tenant_id, client_id, output_file_path, scope,
                   token, handle, tokenLog, stdout>>

\* Variant that retries once before giving up.
HttpGetFailRetry ==
    /\ pc = "request"
    /\ headers' = Headers(token)
    /\ httpLog' = httpLog \o <<Request(Headers(token)), Request(Headers(token))>>
    /\ error' = "NetworkError"
    /\ pc' = "aborted"
    /\ UNCHANGED <<World, tenant_id, client_id, output_file_path, scope,
                   token, response, handle, tokenLog, stdout>>

\* Variant in which the failure is swallowed and an empty response is saved.
HttpGetFailSwallowed ==
    /\ pc = "request"
    /\ headers' = Headers(token)
    /\ httpLog' = Append(httpLog, Request(Headers(token)))
    /\ response' = [status |-> 404, text |-> <<>>]
    /\ error' = "NetworkError"
    /\ pc' = "makedirs"
    /\ UNCHANGED <<World, tenant_id, client_id, output_file_path, scope,
                   token, handle, tokenLog, stdout>>

\* Lines 26-27, requests.get raises: the request went out, no response is bound.
HttpGetFail ==
    /\ pc = "request"
    /\ headers' = Headers(token)
    /\ httpLog' = Append(httpLog, Request(Headers(token)))
    /\ error' = "NetworkError"
    /\ pc' = "aborted"
    /\ UNCHANGED <<World, tenant_id, client_id, output_file_path, scope,
                   token, response, handle, tokenLog, stdout>>

ResponseNotice(r) == [kind |-> "response", status |-> r.status]
SavedNotice(p) == [kind |-> "saved", text |-> "Response saved to ", path |-> FormatChars(p)]

\* Line 29.
PrintResponse ==
    /\ pc = "print_response"
    /\ stdout' = Append(stdout, ResponseNotice(response))
    /\ pc' = "makedirs"
    /\ UNCHANGED <<World, Globals, error, tokenLog, httpLog>>

\* os.makedirs(os.path.dirname(output_file_path), exist_ok=True): dirname of
\* None raises TypeError before makedirs is entered.
MakeDirsResult(p, d, f) ==
    IF p = None THEN Fail(d, "TypeError")
    ELSE makedirs(dirname(p.v), d, f)

\* Line 32.
MakeDirs ==
    /\ pc = "makedirs"
    /\ LET r == MakeDirsResult(output_file_path, dirs, files) IN
         /\ dirs' = r.dirs
         /\ error' = r.err
         /\ pc' = IF r.err = "none" THEN "open" ELSE "aborted"
    /\ UNCHANGED <<environ, files, dirs0, files0, run, prev, Globals, tokenLog, httpLog, stdout>>

\* Line 33.
OpenFile ==
    /\ pc = "open"
    /\ LET r == open_w(output_file_path.v, dirs, files) IN
         /\ files' = r.files
         /\ error' = r.err
         /\ handle' = IF r.err = "none" THEN Resolve(output_file_path.v) ELSE handle
         /\ pc' = IF r.err = "none" THEN "write" ELSE "aborted"
    /\ UNCHANGED <<environ, dirs, dirs0, files0, run, prev, tenant_id, client_id,
                   output_file_path, scope, token, headers, response,
                   tokenLog, httpLog, stdout>>

\* Line 34, and the close on leaving the with block.
WriteFile ==
    /\ pc = "write"
    /\ files' = write(files, handle, response)
    /\ pc' = "print_saved"
    /\ UNCHANGED <<environ, dirs, dirs0, files0, run, prev, Globals, error,
                   tokenLog, httpLog, stdout>>

\* Variant that prints the confirmation ahead of what was printed before.
PrintSavedFirst ==
    /\ pc = "print_saved"
    /\ stdout' = <<SavedNotice(output_file_path)>> \o stdout
    /\ pc' = "done"
    /\ UNCHANGED <<World, Globals, error, tokenLog, httpLog>>

\* Line 36.
PrintSaved ==
    /\ pc = "print_saved"
    /\ stdout' = Append(stdout, SavedNotice(output_file_path))
    /\ pc' = "done"
    /\ UNCHANGED <<World, Globals, error, tokenLog, httpLog>>

\* The script is invoked again, in a new process, on the same environment
\* and on the filesystem the last invocation left.
StartRun ==
    /\ pc \in {"done", "aborted"}
    /\ run < MaxRuns
    /\ run' = run + 1
    /\ prev' = IF pc = "done" THEN "done" ELSE error
    /\ dirs0' = dirs /\ files0' = files
    /\ pc' = "getenv"
    /\ error' = "none"
    /\ tenant_id' = Unbound /\ client_id' = Unbound /\ output_file_path' = Unbound
    /\ scope' = Unbound /\ token' = Unbound /\ headers' = Unbound
    /\ response' = Unbound /\ handle' = Unbound
    /\ tokenLog' = <<>> /\ httpLog' = <<>> /\ stdout' = <<>>
    /\ UNCHANGED <<environ, dirs, files>>

Next ==
    \/ ReadConfig
    \/ CreateCredential
    \/ GetTokenOk
    \/ GetTokenFail
    \/ HttpGetOk
    \/ HttpGetFail
    \/ PrintResponse
    \/ MakeDirs
    \/ OpenFile
    \/ WriteFile
    \/ PrintSaved
    \/ StartRun

Spec == Init /\ [][Next]_vars

----------------------------------------------------------------------------
(* Properties *)

EnvPath == getenv("AZURE_FEDERATED_TOKEN_FILE")
PathGiven == EnvPath # None /\ EnvPath.v # <<>>
Target == Resolve(EnvPath.v)

\* The filesystem the invocation found does not itself stand in the way:
\* no ancestor of the output path is a regular file, and the output path is
\* not a directory.
PathClear ==
    /\ \A a \in Ancestors(Target) : a \notin DOMAIN files0
    /\ Target \notin dirs0

GotToken == tokenLog # <<>> /\ tokenLog[1].result \in Tokens
TokenFailed == tokenLog # <<>> /\ tokenLog[1].result = "AuthenticationError"
BeforeRequest == pc \in {"getenv", "credential", "get_token", "request"}
FileWritten == pc \in {"print_saved", "done"}
EarlyError == error \in {"AuthenticationError", "NetworkError"}

\* C1: an invocation never issues more than one HTTP request; once the token
\* provider has returned T and the script has passed the request step, it has
\* issued exactly one, a GET to the fixed endpoint with Authorization =
\* "Bearer " + T and Accept = text/plain, also when that request failed.
C1_SingleGet ==
    /\ Len(httpLog) <= 1
    /\ BeforeRequest => httpLog = <<>>
    /\ (GotToken /\ ~BeforeRequest) =>
         /\ Len(httpLog) = 1
         /\ httpLog[1].method = "GET"
         /\ httpLog[1].url = "https://prod-feature.runners.gitlab.private.key.store/api/Token/GetWorkloadIdentityToken"
         /\ DOMAIN httpLog[1].headers = {"Authorization", "Accept"}
         /\ httpLog[1].headers.Authorization = "Bearer " \o tokenLog[1].result
         /\ httpLog[1].headers.Accept = "text/plain"

C1_Witness ==
    /\ pc = "aborted" /\ error = "NetworkError"
    /\ GotToken /\ Len(httpLog) = 1
    /\ httpLog[1].headers.Authorization = "Bearer T2"

\* C2: once the script has written the file, the file at the output path
\* holds exactly the text of the response, for every status code.
C2_BodyWritten ==
    FileWritten =>
        /\ Target \in DOMAIN files
        /\ files[Target] = response.text

C2_Witness ==
    /\ pc = "done"
    /\ response.status = 404 /\ response.text = <<"h">>
    /\ Target \in DOMAIN files0 /\ files0[Target] = OldText

\* C3: when get_token fails the invocation is over: no HTTP request is
\* issued, no directory or file is created or changed, nothing is printed.
C3_TokenFailureAborts ==
    TokenFailed =>
        /\ pc = "aborted"
        /\ httpLog = <<>>
        /\ dirs = dirs0
        /\ files = files0
        /\ stdout = <<>>

C3_Witness ==
    /\ TokenFailed /\ pc = "aborted"
    /\ EnvPath = Str(P_abs) /\ dirs0 = Roots

\* C4: when the HTTP GET fails the invocation is over without directory
\* creation or file write: the filesystem is as the invocation found it.
C4_NetworkFailureAborts ==
    error = "NetworkError" =>
        /\ pc = "aborted"
        /\ response = Unbound
        /\ handle = Unbound
        /\ dirs = dirs0
        /\ files = files0

C4_Witness ==
    /\ error = "NetworkError" /\ pc = "aborted"
    /\ PathGiven /\ Target \in DOMAIN files /\ files[Target] = OldText

\* C5: in a second invocation after a completed one, opening the file
\* empties it, and after the write it holds exactly the second body, not
\* the first body followed by the second.
C5_Overwrite ==
    (run >= 2 /\ prev = "done") =>
        /\ pc = "write" => files[Target] = <<>>
        /\ FileWritten =>
             /\ files[Target] = response.text
             /\ files0[Target] # <<>> => files[Target] # files0[Target] \o response.text

C5_Witness ==
    /\ run = 2 /\ prev = "done" /\ pc = "done"
    /\ files0[Target] = <<"h">>
    /\ response.text = <<>>
    /\ files[Target] = <<>>

\* C6: when the output path has a directory part, no ancestor is a regular
\* file and the path is not a directory, an invocation that received a
\* response does not fail: after the directory step every ancestor of the
\* output path is a directory, those that existed are kept, nothing else is
\* created, and after the open the file exists.
C6_ParentsCreated ==
    (PathGiven /\ dirname(EnvPath.v) # <<>> /\ PathClear) =>
        /\ pc = "aborted" => EarlyError
        /\ pc \in {"open", "write", "print_saved", "done"} =>
             dirs = dirs0 \cup Ancestors(Target)
        /\ pc \in {"write", "print_saved", "done"} => Target \in DOMAIN files

C6_Witness ==
    /\ pc = "done"
    /\ EnvPath = Str(P_abs)
    /\ dirs0 = Roots
    /\ Cardinality(dirs) = Cardinality(dirs0) + 3
    /\ Target \in DOMAIN files

\* C7 as stated: nothing is printed before the file has been written, so an
\* invocation that fails prints nothing and one that completes prints the
\* response notice and then the confirmation.
C7_Original ==
    /\ stdout # <<>> => FileWritten
    /\ pc = "aborted" => stdout = <<>>
    /\ pc = "done" =>
         stdout = <<[kind |-> "response", status |-> response.status],
                    [kind |-> "saved", text |-> "Response saved to ", path |-> EnvPath.v]>>

\* C7 amended: the response notice is printed as soon as the response is
\* received, before directory creation; the confirmation only after the
\* file has been written.  An invocation that fails in directory creation
\* or in opening the file has printed the response notice alone, one that
\* fails earlier nothing, one that completes both, in that order.
C7_NoticeOrder ==
    /\ (BeforeRequest \/ pc = "print_response") => stdout = <<>>
    /\ pc \in {"makedirs", "open", "write", "print_saved"} =>
         stdout = <<[kind |-> "response", status |-> response.status]>>
    /\ pc = "aborted" =>
         stdout = IF EarlyError THEN <<>>
                  ELSE <<[kind |-> "response", status |-> response.status]>>
    /\ pc = "done" =>
         stdout = <<[kind |-> "response", status |-> response.status],
                    [kind |-> "saved", text |-> "Response saved to ", path |-> EnvPath.v]>>

C7_Witness ==
    /\ pc = "aborted" /\ error = "IsADirectoryError"
    /\ Len(stdout) = 1 /\ stdout[1].kind = "response"
    /\ files = files0

\* C8: the script never stops before the token request; the scope it asks
\* for is api://None/access_as_user when AZURE_CLIENT_ID is unset and
\* api://<c>/access_as_user when it is c, whatever AZURE_TENANT_ID is.
C8_Scope ==
    /\ pc = "aborted" => tokenLog # <<>>
    /\ ~(pc \in {"getenv", "credential", "get_token"}) => Len(tokenLog) = 1
    /\ tokenLog # <<>> =>
         tokenLog[1].scope =
             IF "AZURE_CLIENT_ID" \in DOMAIN environ
             THEN "api://" \o environ["AZURE_CLIENT_ID"].v \o "/access_as_user"
             ELSE "api://None/access_as_user"

C8_Witness ==
    /\ "AZURE_CLIENT_ID" \notin DOMAIN environ
    /\ "AZURE_TENANT_ID" \in DOMAIN environ
    /\ pc = "done"
    /\ tokenLog[1].scope = "api://None/access_as_user"

\* C9 as stated: for every non-empty output path, on a filesystem that does
\* not stand in the way, an invocation that received a response does not
\* fail in directory creation and writes the body to the path.
C9_AnyPath ==
    (PathGiven /\ PathClear) =>
        /\ pc = "aborted" => EarlyError
        /\ pc = "done" => (Target \in DOMAIN files /\ files[Target] = response.text)

\* C10: with AZURE_FEDERATED_TOKEN_FILE unset the script never stops before
\* the token request and never reaches the open; when neither the token
\* request nor the HTTP GET fails, it has requested a token, issued the GET,
\* received a response and printed the response notice when it stops with a
\* TypeError in the directory step, the filesystem untouched.
C10_UnsetPath ==
    EnvPath = None =>
        /\ pc \notin {"open", "write", "print_saved", "done"}
        /\ pc = "aborted" =>
             /\ tokenLog # <<>>
             /\ (EarlyError \/ error = "TypeError")
             /\ ~EarlyError =>
                  /\ GotToken
                  /\ Len(httpLog) = 1
                  /\ response # Unbound
                  /\ stdout = <<[kind |-> "response", status |-> response.status]>>
                  /\ dirs = dirs0
                  /\ files = files0

C10_Witness ==
    /\ EnvPath = None
    /\ pc = "aborted" /\ error = "TypeError"
    /\ response.status = 200 /\ response.text = <<"h">>
    /\ Len(httpLog) = 1 /\ Len(stdout) = 1

TypeOK ==
    /\ pc \in {"getenv", "credential", "get_token", "request", "print_response",
               "makedirs", "open", "write", "print_saved", "done", "aborted"}
    /\ run \in 1..MaxRuns
    /\ Len(httpLog) <= 2

====
